---- MODULE Spec2Model ----
(***************************************************************************)
(* The pinner (recursive / direct / indirect pins) and the mark-and-sweep  *)
(* garbage collector of the block store, as state machines.                *)
(*                                                                         *)
(* Pin and Unpin hold the pinner's write lock for the whole call; a call   *)
(* is modelled as its entry step, one step per node fetched while walking  *)
(* the links, and its return step.  The GC task is modelled with one step  *)
(* per link resolution, per key swept and per (blocking) channel send.     *)
(***************************************************************************)
EXTENDS Naturals, Sequences, FiniteSets

\* ------------------------------------------------------------------ bounds
\* Number of Pin/Unpin (and Flush) calls of one behaviour.
MaxOps == 4
\* Capacity of the result channel.  The source makes it 128 (gc.go:49); the
\* model scales it down so that a full buffer is reachable with few keys.
OutputCap == 2
\* Number of Pin/Unpin calls of one behaviour that also runs the GC.
MaxOpsGC == 2

\* -------------------------------------------------------------- the DAG
\* Content-addressed blocks: a key determines its links, for ever.
\*   R -> X, Y     X -> Z     W -> X, Z     (Y, Z are leaves)
\* X is shared by the roots R and W; Z is reached from W along two paths.
Keys == {"R", "W", "X", "Y", "Z"}

Links ==
  [k \in Keys |->
     CASE k = "R" -> <<"X", "Y">>
       [] k = "W" -> <<"X", "Z">>
       [] k = "X" -> <<"Z">>
       [] OTHER   -> <<>>]

\* The stores a behaviour may start from: every block present, or the leaf
\* Z missing (a node can be pinned from memory without being in the store).
InitStores == {Keys, Keys \ {"Z"}}

\* The keys the pinner itself depends on (pn.InternalPins()).
InternalChoices == {{}, {"Y"}}

\* The bestEffortRoots arguments of GC.
BestEffortChoices == {{}, {"W"}}

VARIABLES
  store,       \* keys of the blocks present in the block store
  internalPin, \* the pinner's internal pins
  \* ---- pinner
  recursePin,  \* p.recursePin
  directPin,   \* p.directPin
  indirPin,    \* p.indirPin: key -> reference count, for the keys in the map
  lock,        \* p.lock: "free" or "write"
  ppc,         \* position of the mutating call: "idle", "walk", "ret"
  pcall,       \* the mutating call in progress: [op, key, recurse]
  ptodo,       \* keys the walk of pinLinks / unpinLinks has still to fetch
  pres,        \* what the call returns: "ok" or the kind of error
  pre,         \* the three structures when the call began
  budget,      \* Pin/Unpin calls the behaviour may still begin
  obs,         \* the last value a read operation returned
  pin0,        \* the last call that returned, when it was a successful
               \* Pin(k, TRUE) of a k not yet pinned: k and the state before it
  \* ---- the datastore
  dstore,      \* the three records Flush writes: direct, recursive, indirect
  flushed,     \* the three structures at the last Flush, if it returned nil
  loaded,      \* what LoadPinner returned, if it was called since the last Flush
  \* ---- one GC run (the latest)
  gclock,      \* bs.GCLock() is held
  gcpc,        \* position of the GC task
  bestEffort,  \* the bestEffortRoots argument
  gcs,         \* the colored set being built
  gerrors,     \* ColoredSet's errors flag
  hfail,       \* worst link resolution failure of the run: "none", "tolerated"
               \* (not-found under a best-effort root) or "fatal" (any other)
  rootsLeft,   \* roots Descendants has still to start from
  gtodo,       \* links EnumerateChildren has still to visit, depth first
  pending,     \* the Result the task is about to send (at most one)
  derrors,     \* the sweep's errors flag
  keysLeft,    \* keys still to come out of AllKeysChan
  emitted,     \* every Result sent on output so far, in order
  recvd,       \* how many of them the consumer has received
  closed,      \* output is closed
  cancelled,   \* ctx is cancelled
  store0,      \* the store when the run began
  gcRan,       \* this GC run was started
  rlog,        \* the link resolutions of the run's colored-set build: key,
               \* kind of failure, and n for the n-th resolution of that key
  \* ---- a second GC run on the same store and pinner
  other        \* the state of the GC run the variables above do not hold

pvars == <<recursePin, directPin, indirPin, lock, ppc, pcall, ptodo, pres, pre,
           budget, obs, pin0>>

fvars == <<dstore, flushed, loaded>>

gvars == <<gclock, gcpc, bestEffort, gcs, gerrors, hfail, rootsLeft, gtodo,
           pending, derrors, keysLeft, emitted, recvd, closed, cancelled, store0, gcRan, rlog>>

vars == <<store, internalPin, pvars, gvars, fvars, other>>

\* ------------------------------------------------------------ pinner
\* The integration holds the pinner still while a GC run builds its colored
\* set and sweeps: no Pin/Unpin call is in progress during a run.
NoGCRun == gcpc = "idle"
PinnerIdle == ppc = "idle"

NoCall == [op |-> "none", key |-> "-", recurse |-> FALSE]
NoObs == [op |-> "none"]
EmptyRefs == [k \in {} |-> 0]

Snapshot == [r |-> recursePin, d |-> directPin, i |-> indirPin]

\* indirectPin.Increment
Increment(m, k) ==
  IF k \in DOMAIN m
    THEN [m EXCEPT ![k] = @ + 1]
    ELSE [x \in DOMAIN m \cup {k} |-> IF x = k THEN 1 ELSE m[x]]

\* indirectPin.Decrement: the entry is removed when the count reaches zero
Decrement(m, k) ==
  IF k \in DOMAIN m /\ m[k] > 1
    THEN [m EXCEPT ![k] = @ - 1]
    ELSE [x \in DOMAIN m \ {k} |-> m[x]]

\* Faulty walk: the children only, their own links not followed
WalkLinksShallow(ls) == ls

\* The order in which pinLinks / unpinLinks reach the descendants of a node
\* with links ls: each child, then that child's own links, then the next
\* child (depth first, once per path).
RECURSIVE WalkLinks(_)
WalkLinks(ls) ==
  IF ls = <<>> THEN <<>>
  ELSE <<Head(ls)>> \o WalkLinks(Links[Head(ls)]) \o WalkLinks(Tail(ls))

\* Outcomes of fetching node k from the DAG service: a block that is not in
\* the store cannot be fetched; one that is may still fail (I/O, context).
FetchOutcomes(k) == IF k \in store THEN {TRUE, FALSE} ELSE {FALSE}

\* Faulty Pin: the direct pin is kept
DropDirectKept(k) == directPin

\* p.directPin after Pin(k, recursive) dropped an existing direct pin
DropDirect(k) == directPin \ {k}

\* Faulty Pin: no early return for a key that is already pinned recursively
AlreadyRecursiveIgnored(k) == FALSE

\* p.recursePin.HasKey(k), the early return of Pin(node, recurse = TRUE)
AlreadyRecursive(k) == k \in recursePin

\* Pin(node, recurse = TRUE), up to the first fetch of pinLinks
PinRecursiveCall(k) ==
  IF AlreadyRecursive(k)
    THEN /\ pres' = "ok"
         /\ ppc' = "ret"
         /\ ptodo' = <<>>
         /\ UNCHANGED <<recursePin, directPin, indirPin>>
    ELSE /\ directPin' = DropDirect(k)
         /\ ptodo' = WalkLinks(Links[k])
         /\ ppc' = "walk"
         /\ pres' = "-"
         /\ UNCHANGED <<recursePin, indirPin>>

\* Pin(node, recurse = FALSE)
PinDirectCall(k) ==
  /\ ppc' = "ret"
  /\ ptodo' = <<>>
  /\ \E ok \in FetchOutcomes(k) :
       IF ~ok
         THEN /\ pres' = "fetch"
              /\ UNCHANGED <<recursePin, directPin, indirPin>>
         ELSE IF k \in recursePin
           THEN /\ pres' = "alreadyRecursive"
                /\ UNCHANGED <<recursePin, directPin, indirPin>>
           ELSE /\ directPin' = directPin \cup {k}
                /\ pres' = "ok"
                /\ UNCHANGED <<recursePin, indirPin>>

\* Pin: takes the write lock and runs to the first fetch or to the return
Pin(k, recurse) ==
  /\ ppc = "idle"
  /\ lock = "free"
  /\ NoGCRun
  /\ budget > 0
  /\ lock' = "write"
  /\ budget' = budget - 1
  /\ pcall' = [op |-> "Pin", key |-> k, recurse |-> recurse]
  /\ pre' = Snapshot
  /\ obs' = NoObs
  /\ IF recurse THEN PinRecursiveCall(k) ELSE PinDirectCall(k)
  /\ UNCHANGED <<store, internalPin, gvars, fvars, other, pin0>>

\* One iteration of pinLinks / pinIndirectRecurse: fetch the next node and
\* increment its count; after the last one the key joins the recursive set.
PinLinksStep ==
  /\ ppc = "walk"
  /\ pcall.op = "Pin"
  /\ IF ptodo = <<>>
       THEN /\ recursePin' = recursePin \cup {pcall.key}
            /\ pres' = "ok"
            /\ ppc' = "ret"
            /\ UNCHANGED <<indirPin, ptodo>>
       ELSE \E ok \in FetchOutcomes(Head(ptodo)) :
              IF ok
                THEN /\ indirPin' = Increment(indirPin, Head(ptodo))
                     /\ ptodo' = Tail(ptodo)
                     /\ UNCHANGED <<recursePin, pres, ppc>>
                ELSE /\ pres' = "fetch"
                     /\ ppc' = "ret"
                     /\ ptodo' = <<>>
                     /\ UNCHANGED <<recursePin, indirPin>>
  /\ UNCHANGED <<store, internalPin, gvars, fvars, other, pin0, directPin, lock, pcall, pre, budget, obs>>

\* Faulty Unpin: the key leaves the recursive set before the flag is looked at
UnpinRecursiveSetEarly(k, recursive) == recursePin \ {k}

\* p.recursePin after Unpin(k, recursive) found k recursively pinned
UnpinRecursiveSet(k, recursive) ==
  IF recursive THEN recursePin \ {k} ELSE recursePin

\* Faulty unpinLinks: a descendant that several paths reach is decremented
\* along the first path only
RECURSIVE OncePerKey(_)
OncePerKey(w) ==
  IF w = <<>> THEN <<>>
  ELSE <<Head(w)>> \o OncePerKey(SelectSeq(Tail(w), LAMBDA x : x # Head(w)))

UnpinWalkOnce(k) == OncePerKey(WalkLinks(Links[k]))

\* The nodes unpinLinks fetches and decrements for Unpin(k, TRUE): the walk
\* of pinLinks, once per path
UnpinWalk(k) == WalkLinks(Links[k])

\* Unpin: takes the write lock and runs to the first link fetch or the return
Unpin(k, recursive) ==
  /\ ppc = "idle"
  /\ lock = "free"
  /\ NoGCRun
  /\ budget > 0
  /\ lock' = "write"
  /\ budget' = budget - 1
  /\ pcall' = [op |-> "Unpin", key |-> k, recurse |-> recursive]
  /\ pre' = Snapshot
  /\ obs' = NoObs
  /\ IF k \in recursePin
       THEN /\ recursePin' = UnpinRecursiveSet(k, recursive)
            /\ IF recursive
                 THEN \E ok \in FetchOutcomes(k) :
                        IF ok
                          THEN /\ ptodo' = UnpinWalk(k)
                               /\ ppc' = "walk"
                               /\ pres' = "-"
                          ELSE /\ ptodo' = <<>>
                               /\ ppc' = "ret"
                               /\ pres' = "fetch"
                 ELSE /\ ptodo' = <<>>
                      /\ ppc' = "ret"
                      /\ pres' = "isRecursive"
            /\ UNCHANGED <<directPin, indirPin>>
       ELSE /\ ptodo' = <<>>
            /\ ppc' = "ret"
            /\ IF k \in directPin
                 THEN /\ directPin' = directPin \ {k}
                      /\ pres' = "ok"
                 ELSE /\ pres' = IF k \in DOMAIN indirPin
                                   THEN "isIndirect" ELSE "notPinned"
                      /\ UNCHANGED directPin
            /\ UNCHANGED <<recursePin, indirPin>>
  /\ UNCHANGED <<store, internalPin, gvars, fvars, other, pin0>>

\* One iteration of unpinLinks: fetch the next node and decrement its count
UnpinLinksStep ==
  /\ ppc = "walk"
  /\ pcall.op = "Unpin"
  /\ IF ptodo = <<>>
       THEN /\ pres' = "ok"
            /\ ppc' = "ret"
            /\ UNCHANGED <<indirPin, ptodo>>
       ELSE \E ok \in FetchOutcomes(Head(ptodo)) :
              IF ok
                THEN /\ indirPin' = Decrement(indirPin, Head(ptodo))
                     /\ ptodo' = Tail(ptodo)
                     /\ UNCHANGED <<pres, ppc>>
                ELSE /\ pres' = "fetch"
                     /\ ppc' = "ret"
                     /\ ptodo' = <<>>
                     /\ UNCHANGED indirPin
  /\ UNCHANGED <<store, internalPin, gvars, fvars, other, pin0, recursePin, directPin, lock, pcall, pre,
                 budget, obs>>

\* The call that returns is a successful Pin(k, TRUE) of a key that was in
\* neither the recursive nor the direct set
FreshPinReturns ==
  /\ pcall.op = "Pin" /\ pcall.recurse /\ pres = "ok"
  /\ pcall.key \notin pre.r \cup pre.d

NoPin == [key |-> "-"]

\* The deferred p.lock.Unlock() and the return to the caller
Return ==
  /\ ppc = "ret"
  /\ lock' = "free"
  /\ ppc' = "idle"
  /\ pcall' = NoCall
  /\ pres' = "-"
  /\ pre' = Snapshot
  /\ obs' = NoObs
  /\ pin0' = IF FreshPinReturns THEN [key |-> pcall.key, sn |-> pre] ELSE NoPin
  /\ UNCHANGED <<store, internalPin, gvars, fvars, other, recursePin, directPin,
                 indirPin, ptodo, budget>>

\* ---- read operations
\* Whether a read operation that takes the read lock may run now
RLockFree == lock = "free"

\* IsPinned takes the read lock
IsPinned(k) ==
  /\ RLockFree
  /\ obs' = [op |-> "IsPinned", key |-> k,
             val |-> (k \in recursePin \/ k \in directPin \/ k \in DOMAIN indirPin)]
  /\ UNCHANGED <<store, internalPin, gvars, fvars, other, pin0, recursePin, directPin, indirPin, lock, ppc,
                 pcall, ptodo, pres, pre, budget>>

\* Whether DirectKeys / IndirectKeys / RecursiveKeys may run now: they take
\* no lock, so they run whatever the state of p.lock
KeysReadable == TRUE

DirectKeys ==
  /\ KeysReadable
  /\ obs' = [op |-> "DirectKeys", val |-> directPin]
  /\ UNCHANGED <<store, internalPin, gvars, fvars, other, pin0, recursePin, directPin, indirPin, lock, ppc,
                 pcall, ptodo, pres, pre, budget>>

IndirectKeys ==
  /\ KeysReadable
  /\ obs' = [op |-> "IndirectKeys", val |-> indirPin]
  /\ UNCHANGED <<store, internalPin, gvars, fvars, other, pin0, recursePin, directPin, indirPin, lock, ppc,
                 pcall, ptodo, pres, pre, budget>>

RecursiveKeys ==
  /\ KeysReadable
  /\ obs' = [op |-> "RecursiveKeys", val |-> recursePin]
  /\ UNCHANGED <<store, internalPin, gvars, fvars, other, pin0, recursePin, directPin, indirPin, lock, ppc,
                 pcall, ptodo, pres, pre, budget>>

\* ------------------------------------------------------- persistence
\* A record of the datastore: absent, or the bytes that were put
NoRecord == [has |-> FALSE]
Record(buf) == [has |-> TRUE, buf |-> buf]

\* The datastore of a new pinner: none of the three records was written
EmptyDatastore ==
  [direct |-> NoRecord, recursive |-> NoRecord, indirect |-> NoRecord]

NotFlushed == [ok |-> FALSE]
NotLoaded == [op |-> "none"]

\* The text form of a key in the JSON documents
B58 ==
  [k \in Keys |->
     CASE k = "R" -> "QmR" [] k = "W" -> "QmW" [] k = "X" -> "QmX"
       [] k = "Y" -> "QmY" [] k = "Z" -> "QmZ"]

B58Decode(t) == CHOOSE k \in Keys : B58[k] = t

\* BlockSet.GetKeys: the keys of the set as a slice, in any order
GetKeys(S) ==
  {l \in [1..Cardinality(S) -> S] : \A i, j \in DOMAIN l : l[i] = l[j] => i = j}

\* json.Marshal of a slice of keys: the array of their text forms
MarshalKeys(l) == [i \in DOMAIN l |-> B58[l[i]]]

\* json.Unmarshal into a slice of keys
UnmarshalKeys(buf) == [i \in DOMAIN buf |-> B58Decode(buf[i])]

\* set.SimpleSetFromKeys
SimpleSetFromKeys(l) == {l[i] : i \in DOMAIN l}

\* storeIndirPin: the document of the reference counts, one member per key
MarshalRefs(m) == {<<B58[k], m[k]>> : k \in DOMAIN m}

\* loadIndirPin: the map of the members of the document
UnmarshalRefs(buf) ==
  [k \in {B58Decode(e[1]) : e \in buf} |->
     (CHOOSE e \in buf : B58Decode(e[1]) = k)[2]]

\* How far Flush gets: each of its three puts may fail, and ends the call
FlushOutcomes == {"directFails", "recursiveFails", "indirectFails", "ok"}

\* Flush: under the write lock, puts the direct keys, then the recursive keys,
\* then the reference counts, and returns at the first put that fails
Flush ==
  /\ lock = "free"
  /\ ppc = "idle"
  /\ budget > 0
  /\ budget' = budget - 1
  /\ loaded' = NotLoaded
  /\ \E o \in FlushOutcomes, ld \in GetKeys(directPin), lr \in GetKeys(recursePin) :
       /\ dstore' =
            [direct |-> IF o = "directFails"
                          THEN dstore.direct ELSE Record(MarshalKeys(ld)),
             recursive |-> IF o \in {"directFails", "recursiveFails"}
                             THEN dstore.recursive ELSE Record(MarshalKeys(lr)),
             indirect |-> IF o = "ok"
                            THEN Record(MarshalRefs(indirPin)) ELSE dstore.indirect]
       /\ flushed' = IF o = "ok" THEN [ok |-> TRUE, sn |-> Snapshot] ELSE NotFlushed
  /\ UNCHANGED <<store, internalPin, gvars, other, recursePin, directPin, indirPin,
                 lock, ppc, pcall, ptodo, pres, pre, obs, pin0>>

\* Faulty LoadPinner: the direct set is read from the record of the recursive one
LoadedDirectFromRecursive(d) == d.recursive

\* The record LoadPinner reads the direct set from
LoadedDirect(d) == d.direct

\* LoadPinner: a new pinner from the three records, or an error if one of them
\* cannot be read
LoadPinner ==
  /\ loaded' =
       IF dstore.recursive.has /\ LoadedDirect(dstore).has /\ dstore.indirect.has
         THEN [op |-> "LoadPinner", ok |-> TRUE,
               sn |-> [r |-> SimpleSetFromKeys(UnmarshalKeys(dstore.recursive.buf)),
                       d |-> SimpleSetFromKeys(UnmarshalKeys(LoadedDirect(dstore).buf)),
                       i |-> UnmarshalRefs(dstore.indirect.buf)]]
         ELSE [op |-> "LoadPinner", ok |-> FALSE]
  /\ UNCHANGED <<store, internalPin, pvars, gvars, other, dstore, flushed>>

\* ---------------------------------------------------------------- GC
\* The order in which AllKeysChan hands out the keys of the store
KeyOrder == <<"R", "W", "X", "Y", "Z">>
KeysChan(S) == SelectSeq(KeyOrder, LAMBDA k : k \in S)

\* Results
Removed(k) == [kind |-> "KeyRemoved", key |-> k]
CannotFetchLinks(k) == [kind |-> "CannotFetchLinksError", key |-> k]
CannotDeleteBlock(k) == [kind |-> "CannotDeleteBlockError", key |-> k]
ErrCannotFetchAllLinks == [kind |-> "ErrCannotFetchAllLinks", key |-> "-"]
ErrCannotDeleteSomeBlocks == [kind |-> "ErrCannotDeleteSomeBlocks", key |-> "-"]
ErrAllKeys == [kind |-> "AllKeysChanError", key |-> "-"]

\* A plain send blocks until the buffer has room; the send of a removed key
\* is a select with ctx.Done().
PlainSend(r) == <<[res |-> r, sel |-> FALSE]>>
SelectSend(r) == <<[res |-> r, sel |-> TRUE]>>

Buffered == Len(emitted) - recvd
Room == Buffered < OutputCap

\* Faulty lock: bs.GCLock() returns although the lock is held
GCLockFreeAlways == TRUE

\* Whether bs.GCLock() returns: the caller is blocked while the lock is held
GCLockFree == ~gclock

\* GC(): takes the GC lock, makes the channel and starts the task
GCStart(be) ==
  /\ NoGCRun
  /\ PinnerIdle
  /\ ~gcRan
  /\ GCLockFree
  /\ gclock' = TRUE
  /\ gcpc' = "begin"
  /\ bestEffort' = be
  /\ gcs' = {}
  /\ gerrors' = FALSE
  /\ hfail' = "none"
  /\ rootsLeft' = {}
  /\ gtodo' = <<>>
  /\ pending' = <<>>
  /\ derrors' = FALSE
  /\ keysLeft' = <<>>
  /\ emitted' = <<>>
  /\ recvd' = 0
  /\ closed' = FALSE
  /\ cancelled' = FALSE
  /\ store0' = store
  /\ gcRan' = TRUE
  /\ rlog' = {}
  /\ UNCHANGED <<store, internalPin, pvars, fvars, other>>

\* ColoredSet begins: Descendants(getLinks, gcs, pn.RecursiveKeys())
MarkBegin ==
  /\ gcpc = "begin"
  /\ gcpc' = "recursive"
  /\ rootsLeft' = recursePin
  /\ UNCHANGED <<store, internalPin, pvars, fvars, other, gclock, bestEffort, gcs, gerrors,
                 hfail, gtodo, pending, derrors, keysLeft, emitted, recvd,
                 closed, cancelled, store0, gcRan, rlog>>

\* Outcomes of ipld.GetLinks on c: a block that is not in the store is not
\* found; any block may fail with another error.
LinkOutcomes(c) == IF c \in store THEN {"ok", "error"} ELSE {"notfound", "error"}

\* What outcome o is in the current traversal: only a not-found under a
\* best-effort root can be tolerated
Failure(o) ==
  CASE o = "ok" -> "none"
    [] o = "notfound" /\ gcpc = "bestEffort" -> "tolerated"
    [] OTHER -> "fatal"

Worse(a, b) ==
  IF "fatal" \in {a, b} THEN "fatal"
  ELSE IF "tolerated" \in {a, b} THEN "tolerated" ELSE "none"

\* Faulty bestEffortGetLinks: it reports a not-found like the strict wrapper
ReportedStrictly(o) == o \in {"notfound", "error"}

\* Whether the getLinks wrapper of the current traversal reports outcome o as
\* a failure: the strict one reports every error, bestEffortGetLinks every
\* error but ipld.ErrNotFound.
Reported(o) ==
  IF gcpc = "bestEffort" THEN o = "error" ELSE o \in {"notfound", "error"}

\* How many times the links of c were resolved so far in this build
Resolutions(c) == Cardinality({e \in rlog : e.key = c})

\* getLinks / bestEffortGetLinks on c, the links still to visit being rest:
\* on a reported failure sets the errors flag and sends a Result, and in every
\* case hands the links (none on failure) back with a nil error.
GetLinks(c, rest) ==
  \E o \in LinkOutcomes(c) :
    /\ gtodo' = IF o = "ok" THEN Links[c] \o rest ELSE rest
    /\ hfail' = Worse(hfail, Failure(o))
    /\ rlog' = rlog \cup {[key |-> c, fail |-> Failure(o), n |-> Resolutions(c) + 1]}
    /\ IF Reported(o)
         THEN /\ gerrors' = TRUE
              /\ pending' = PlainSend(CannotFetchLinks(c))
         ELSE UNCHANGED <<gerrors, pending>>

Marking == gcpc \in {"recursive", "bestEffort", "internal"}

\* Descendants, next root: set.Add(c), then EnumerateChildren resolves c
DescendRoot ==
  /\ Marking
  /\ pending = <<>>
  /\ gtodo = <<>>
  /\ \E r \in rootsLeft :
       /\ rootsLeft' = rootsLeft \ {r}
       /\ gcs' = gcs \cup {r}
       /\ GetLinks(r, <<>>)
  /\ UNCHANGED <<store, internalPin, pvars, fvars, other, gclock, gcpc, bestEffort, derrors,
                 keysLeft, emitted, recvd, closed, cancelled, store0, gcRan>>

\* EnumerateChildren, next link: set.Visit(c), and c is resolved if it is new
VisitLink ==
  /\ Marking
  /\ pending = <<>>
  /\ gtodo # <<>>
  /\ IF Head(gtodo) \in gcs
       THEN /\ gtodo' = Tail(gtodo)
            /\ UNCHANGED <<gcs, gerrors, pending, hfail, rlog>>
       ELSE /\ gcs' = gcs \cup {Head(gtodo)}
            /\ GetLinks(Head(gtodo), Tail(gtodo))
  /\ UNCHANGED <<store, internalPin, pvars, fvars, other, gclock, gcpc, bestEffort, rootsLeft,
                 derrors, keysLeft, emitted, recvd, closed, cancelled, store0, gcRan>>

\* Faulty ColoredSet: the set is returned whatever failed
MarkFailedNever == FALSE

\* ColoredSet's verdict: the build failed if any failure was reported
MarkFailed == gerrors

\* Faulty ColoredSet: the directly pinned keys are left out
DirectColoredDropped == gcs

\* The set after the loop over pn.DirectKeys(): the keys are added, their
\* links are not followed
DirectColored == gcs \cup directPin

\* A traversal is over: ColoredSet goes on to the next one, and after the
\* last one returns the set or ErrCannotFetchAllLinks to GC
MarkNext ==
  /\ Marking
  /\ pending = <<>>
  /\ gtodo = <<>>
  /\ rootsLeft = {}
  /\ CASE gcpc = "recursive" ->
            /\ gcpc' = "bestEffort"
            /\ rootsLeft' = bestEffort
            /\ UNCHANGED <<gcs, pending>>
       [] gcpc = "bestEffort" ->
            /\ gcpc' = "internal"
            /\ gcs' = DirectColored
            /\ rootsLeft' = internalPin
            /\ UNCHANGED pending
       [] gcpc = "internal" ->
            /\ IF MarkFailed
                 THEN /\ pending' = PlainSend(ErrCannotFetchAllLinks)
                      /\ gcpc' = "exit"
                 ELSE /\ gcpc' = "allkeys"
                      /\ UNCHANGED pending
            /\ UNCHANGED <<gcs, rootsLeft>>
  /\ UNCHANGED <<store, internalPin, pvars, fvars, other, gclock, bestEffort, gerrors, hfail,
                 gtodo, derrors, keysLeft, emitted, recvd, closed, cancelled, store0, gcRan, rlog>>

\* bs.AllKeysChan(ctx)
AllKeys ==
  /\ gcpc = "allkeys"
  /\ \E ok \in BOOLEAN :
       IF ok
         THEN /\ keysLeft' = KeysChan(store)
              /\ gcpc' = "sweep"
              /\ UNCHANGED pending
         ELSE /\ pending' = PlainSend(ErrAllKeys)
              /\ gcpc' = "exit"
              /\ UNCHANGED keysLeft
  /\ UNCHANGED <<store, internalPin, pvars, fvars, other, gclock, bestEffort, gcs, gerrors,
                 hfail, rootsLeft, gtodo, derrors, emitted, recvd, closed,
                 cancelled, store0, gcRan, rlog>>

\* Faulty sweep: the test of the colored set is inverted
ColoredInverted(k) == k \notin gcs

\* gcs.Has(k)
Colored(k) == k \in gcs

\* Faulty sweep: a failed deletion ends the loop
AfterDeleteErrorBreak == "final"

\* Where the sweep goes after a failed deletion and its Result: "continue
\* loop", the error is not fatal
AfterDeleteError == "sweep"

\* The sweep loop receives the next key (or finds keychan closed)
SweepKey ==
  /\ gcpc = "sweep"
  /\ pending = <<>>
  /\ IF keysLeft = <<>>
       THEN /\ gcpc' = "final"
            /\ UNCHANGED <<store, keysLeft, derrors, pending>>
       ELSE /\ keysLeft' = Tail(keysLeft)
            /\ IF Colored(Head(keysLeft))
                 THEN UNCHANGED <<store, derrors, pending, gcpc>>
                 ELSE \E ok \in BOOLEAN :
                        IF ok
                          THEN /\ store' = store \ {Head(keysLeft)}
                               /\ pending' = SelectSend(Removed(Head(keysLeft)))
                               /\ UNCHANGED <<derrors, gcpc>>
                          ELSE /\ derrors' = TRUE
                               /\ pending' = PlainSend(CannotDeleteBlock(Head(keysLeft)))
                               /\ gcpc' = AfterDeleteError
                               /\ UNCHANGED store
  /\ UNCHANGED <<internalPin, pvars, fvars, other, gclock, bestEffort, gcs, gerrors, hfail,
                 rootsLeft, gtodo, emitted, recvd, closed, cancelled, store0, gcRan, rlog>>

\* Faulty sweep: cancellation gives up the send and the loop goes on
AfterCancelContinue == "sweep"

\* Where the sweep goes when it finds ctx done: "break loop"
AfterCancel == "final"

\* The sweep loop takes the ctx.Done() case of one of its two selects
SweepCancelled ==
  /\ gcpc = "sweep"
  /\ cancelled
  /\ IF pending = <<>> THEN TRUE ELSE pending[1].sel
  /\ pending' = <<>>
  /\ gcpc' = AfterCancel
  /\ UNCHANGED <<store, internalPin, pvars, fvars, other, gclock, bestEffort, gcs, gerrors,
                 hfail, rootsLeft, gtodo, derrors, keysLeft, emitted, recvd,
                 closed, cancelled, store0, gcRan, rlog>>

\* output <- Result: completes once the buffer has room
Send ==
  /\ pending # <<>>
  /\ Room
  /\ emitted' = Append(emitted, pending[1].res)
  /\ pending' = <<>>
  /\ UNCHANGED <<store, internalPin, pvars, fvars, other, gclock, gcpc, bestEffort, gcs, gerrors,
                 hfail, rootsLeft, gtodo, derrors, keysLeft, recvd, closed,
                 cancelled, store0, gcRan, rlog>>

\* After the loop: ErrCannotDeleteSomeBlocks if a deletion failed
SweepEnd ==
  /\ gcpc = "final"
  /\ pending = <<>>
  /\ gcpc' = "exit"
  /\ pending' = IF derrors THEN PlainSend(ErrCannotDeleteSomeBlocks) ELSE <<>>
  /\ UNCHANGED <<store, internalPin, pvars, fvars, other, gclock, bestEffort, gcs, gerrors,
                 hfail, rootsLeft, gtodo, derrors, keysLeft, emitted, recvd,
                 closed, cancelled, store0, gcRan, rlog>>

\* Faulty task: the deferred calls run while the last send is still blocked
TaskReturnsEarly == gcpc = "exit"

\* The task returns once its last send is done
TaskReturns == gcpc = "exit" /\ pending = <<>>

\* defer unlocker.Unlock()
Unlock ==
  /\ TaskReturns
  /\ gclock' = FALSE
  /\ gcpc' = "close"
  /\ UNCHANGED <<store, internalPin, pvars, fvars, other, bestEffort, gcs, gerrors, hfail,
                 rootsLeft, gtodo, pending, derrors, keysLeft, emitted, recvd,
                 closed, cancelled, store0, gcRan, rlog>>

\* defer close(output)
Close ==
  /\ gcpc = "close"
  /\ closed' = TRUE
  /\ gcpc' = "done"
  /\ UNCHANGED <<store, internalPin, pvars, fvars, other, gclock, bestEffort, gcs, gerrors,
                 hfail, rootsLeft, gtodo, pending, derrors, keysLeft, emitted,
                 recvd, cancelled, store0, gcRan, rlog>>

\* The consumer receives the next Result
Recv ==
  /\ recvd < Len(emitted)
  /\ recvd' = recvd + 1
  /\ UNCHANGED <<store, internalPin, pvars, fvars, other, gclock, gcpc, bestEffort, gcs, gerrors,
                 hfail, rootsLeft, gtodo, pending, derrors, keysLeft, emitted,
                 closed, cancelled, store0, gcRan, rlog>>

\* The consumer is through with the run: its range over output ended at the
\* close, or it cancelled and dropped the channel
Finish ==
  /\ gcpc = "done"
  /\ cancelled \/ recvd = Len(emitted)
  /\ gcpc' = "idle"
  /\ bestEffort' = {}
  /\ gcs' = {}
  /\ gerrors' = FALSE
  /\ hfail' = "none"
  /\ derrors' = FALSE
  /\ emitted' = <<>>
  /\ recvd' = 0
  /\ closed' = FALSE
  /\ cancelled' = FALSE
  /\ store0' = store
  /\ rlog' = {}
  /\ UNCHANGED <<store, internalPin, pvars, fvars, other, gclock, rootsLeft, gtodo, pending,
                 keysLeft, gcRan>>

\* The caller cancels ctx during the run
Cancel ==
  /\ gcpc \notin {"idle", "done"}
  /\ ~cancelled
  /\ cancelled' = TRUE
  /\ UNCHANGED <<store, internalPin, pvars, fvars, other, gclock, gcpc, bestEffort, gcs, gerrors,
                 hfail, rootsLeft, gtodo, pending, derrors, keysLeft, emitted,
                 recvd, closed, store0, gcRan, rlog>>

\* ---- two GC runs
\* A GC run that was not started, on store st
IdleRun(st) ==
  [gcpc |-> "idle", bestEffort |-> {}, gcs |-> {}, gerrors |-> FALSE,
   hfail |-> "none", rootsLeft |-> {}, gtodo |-> <<>>, pending |-> <<>>,
   derrors |-> FALSE, keysLeft |-> <<>>, emitted |-> <<>>, recvd |-> 0,
   closed |-> FALSE, cancelled |-> FALSE, store0 |-> st, gcRan |-> FALSE,
   rlog |-> {}]

\* The state of the run the GC variables hold: everything of one invocation
\* of GC (the lock belongs to the block store, not to a run)
ThisRun ==
  [gcpc |-> gcpc, bestEffort |-> bestEffort, gcs |-> gcs, gerrors |-> gerrors,
   hfail |-> hfail, rootsLeft |-> rootsLeft, gtodo |-> gtodo, pending |-> pending,
   derrors |-> derrors, keysLeft |-> keysLeft, emitted |-> emitted, recvd |-> recvd,
   closed |-> closed, cancelled |-> cancelled, store0 |-> store0, gcRan |-> gcRan,
   rlog |-> rlog]

\* The scheduler turns to the other invocation of GC: the two runs exchange
\* places, so that every step of GC above is a step of either run
Switch ==
  /\ other' = ThisRun
  /\ gcpc' = other.gcpc
  /\ bestEffort' = other.bestEffort
  /\ gcs' = other.gcs
  /\ gerrors' = other.gerrors
  /\ hfail' = other.hfail
  /\ rootsLeft' = other.rootsLeft
  /\ gtodo' = other.gtodo
  /\ pending' = other.pending
  /\ derrors' = other.derrors
  /\ keysLeft' = other.keysLeft
  /\ emitted' = other.emitted
  /\ recvd' = other.recvd
  /\ closed' = other.closed
  /\ cancelled' = other.cancelled
  /\ store0' = other.store0
  /\ gcRan' = other.gcRan
  /\ rlog' = other.rlog
  /\ UNCHANGED <<store, internalPin, pvars, fvars, gclock>>

\* ------------------------------------------------------------ the system
\* The state after construction, with the pinner's three structures as in sn
\* and ops calls to come
InitWith(ops, sn) ==
  /\ store \in InitStores
  /\ internalPin \in InternalChoices
  /\ recursePin = sn.r
  /\ directPin = sn.d
  /\ indirPin = sn.i
  /\ lock = "free"
  /\ ppc = "idle"
  /\ pcall = NoCall
  /\ ptodo = <<>>
  /\ pres = "-"
  /\ pre = sn
  /\ budget = ops
  /\ obs = NoObs
  /\ pin0 = NoPin
  /\ dstore = EmptyDatastore
  /\ flushed = NotFlushed
  /\ loaded = NotLoaded
  /\ gclock = FALSE
  /\ gcpc = "idle"
  /\ bestEffort = {}
  /\ gcs = {}
  /\ gerrors = FALSE
  /\ hfail = "none"
  /\ rootsLeft = {}
  /\ gtodo = <<>>
  /\ pending = <<>>
  /\ derrors = FALSE
  /\ keysLeft = <<>>
  /\ emitted = <<>>
  /\ recvd = 0
  /\ closed = FALSE
  /\ cancelled = FALSE
  /\ store0 = store
  /\ gcRan = FALSE
  /\ rlog = {}
  /\ other = IdleRun(store)

\* NewPinner: the three structures are empty
NewPinner == [r |-> {}, d |-> {}, i |-> EmptyRefs]

InitPinner(ops) == InitWith(ops, NewPinner)

\* The pinner with its readers
Init == InitPinner(MaxOps)

Next ==
  \/ \E k \in Keys, recurse \in BOOLEAN : Pin(k, recurse)
  \/ PinLinksStep
  \/ \E k \in Keys, recursive \in BOOLEAN : Unpin(k, recursive)
  \/ UnpinLinksStep
  \/ Return
  \/ \E k \in Keys : IsPinned(k)
  \/ DirectKeys
  \/ IndirectKeys
  \/ RecursiveKeys

Spec == Init /\ [][Next]_vars

\* The pinner and the garbage collector with its consumer
InitGC == InitPinner(MaxOpsGC)

\* The steps of the GC task that the context's cancellation plays no part in
GCSteps ==
  \/ MarkBegin
  \/ DescendRoot
  \/ VisitLink
  \/ MarkNext
  \/ AllKeys
  \/ SweepKey
  \/ Send
  \/ SweepEnd
  \/ Unlock
  \/ Close

GCTask ==
  \/ GCSteps
  \/ SweepCancelled

NextGC ==
  \/ \E k \in Keys, recurse \in BOOLEAN : Pin(k, recurse)
  \/ PinLinksStep
  \/ \E k \in Keys, recursive \in BOOLEAN : Unpin(k, recursive)
  \/ UnpinLinksStep
  \/ Return
  \/ \E be \in BestEffortChoices : GCStart(be)
  \/ GCTask
  \/ Recv
  \/ Cancel
  \/ Finish

SpecGC == InitGC /\ [][NextGC]_vars

\* The same under fair scheduling: the GC task takes a step whenever it can,
\* and the consumer keeps receiving as long as it has not cancelled
FairSpecGC ==
  /\ SpecGC
  /\ WF_vars(GCTask)
  /\ WF_vars(Recv /\ ~cancelled)

\* The pinner with its datastore: Flush and LoadPinner between the calls
InitFlush == InitPinner(MaxOps)

NextFlush ==
  \/ \E k \in Keys, recurse \in BOOLEAN : Pin(k, recurse)
  \/ PinLinksStep
  \/ \E k \in Keys, recursive \in BOOLEAN : Unpin(k, recursive)
  \/ UnpinLinksStep
  \/ Return
  \/ Flush
  \/ LoadPinner

SpecFlush == InitFlush /\ [][NextFlush]_vars

\* Two invocations of GC on the same store and pinner, each with its consumer
\* (which reads to the end: the runs are not cancelled)
\* The pinner the two runs find: new, or after Pin(R, TRUE) returned nil
PinnedR ==
  [r |-> {"R"}, d |-> {}, i |-> [k \in {"X", "Y", "Z"} |-> 1]]

\* The pinner is not called while the runs are on; R was pinned only if its
\* whole DAG was in the store
InitRuns ==
  /\ \E sn \in {NewPinner, PinnedR} : InitWith(0, sn)
  /\ recursePin # {} => store = Keys

NextRuns ==
  \/ \E be \in BestEffortChoices : GCStart(be)
  \/ GCSteps
  \/ Recv
  \/ Finish
  \/ Switch

SpecRuns == InitRuns /\ [][NextRuns]_vars

\* ================================================================ claims
\* ---- helpers of the claims
Children(k) == {Links[k][i] : i \in DOMAIN Links[k]}

\* The longest link path has MaxPath keys
MaxPath == Cardinality(Keys)

\* The link paths: sequences of at least two keys, each linked from the one
\* before it
LinkPaths ==
  {p \in UNION {[1..n -> Keys] : n \in 2..MaxPath} :
     \A i \in 1..(Len(p) - 1) : p[i + 1] \in Children(p[i])}

\* Number of link paths from r down to k
PathCount == [r \in Keys, k \in Keys |->
                Cardinality({p \in LinkPaths : p[1] = r /\ p[Len(p)] = k})]

RECURSIVE SumPaths(_, _)
SumPaths(roots, k) ==
  IF roots = {} THEN 0
  ELSE LET r == CHOOSE x \in roots : TRUE
       IN PathCount[r, k] + SumPaths(roots \ {r}, k)

\* The indirect map of sn counts, for every key, the pairs (recursively pinned
\* root, link path from it down to the key), and holds no key whose count is 0
Exact(sn) ==
  \A k \in Keys :
    IF SumPaths(sn.r, k) >= 1
      THEN k \in DOMAIN sn.i /\ sn.i[k] = SumPaths(sn.r, k)
      ELSE k \notin DOMAIN sn.i

Returned == ppc = "ret"

\* C4: Pin and Unpin calls that return without error keep the indirect
\* reference counts exact: if before the call every key's count was the number
\* of pairs (recursively pinned root, link path from the root down to the key),
\* with the keys of count 0 absent from the map, then so it is after the call.
\* The pinner starts exact (empty), so by induction the counts are exact after
\* any sequence of calls that all return without error.
C4_RefcountExact ==
  (Returned /\ pres = "ok" /\ Exact(pre)) => Exact(Snapshot)

\* C4 witness: X is shared by the recursively pinned roots R and W (count 2);
\* Unpin of one of them returned and left X with count 1, still pinned.
C4_Witness ==
  /\ Returned /\ pres = "ok"
  /\ pcall.op = "Unpin" /\ pcall.recurse
  /\ pre.r = {"R", "W"}
  /\ Exact(pre)
  /\ pre.i["X"] = 2
  /\ "X" \in DOMAIN indirPin /\ indirPin["X"] = 1

\* C5: no key is in both the recursive set and the direct set, in any state
\* that Pin and Unpin calls reach, successful or failing.
C5_RecursiveDirectDisjoint == recursePin \cap directPin = {}

\* C5 witness: Pin(k, recursive) of a direct-pinned k returned: k is in the
\* recursive set and no longer in the direct set.
C5_Witness ==
  /\ Returned /\ pres = "ok"
  /\ pcall.op = "Pin" /\ pcall.recurse
  /\ pcall.key \in pre.d
  /\ pcall.key \in recursePin

\* The calls that must fail with a pin-state error
PinStateErrorCase ==
  \/ pcall.op = "Unpin" /\ pcall.key \notin pre.r \cup pre.d
  \/ pcall.op = "Unpin" /\ ~pcall.recurse /\ pcall.key \in pre.r
  \/ pcall.op = "Pin" /\ ~pcall.recurse /\ pcall.key \in pre.r

\* C6: Unpin of a key that is not pinned or only indirectly pinned,
\* Unpin(k, FALSE) of a recursively pinned k and Pin(k, FALSE) of a recursively
\* pinned k return an error, and every call that returns a pin-state error
\* leaves the recursive set, the direct set and the indirect map as they were.
C6_PinStateErrorsChangeNothing ==
  /\ (Returned /\ PinStateErrorCase) => (pres # "ok" /\ Snapshot = pre)
  /\ (Returned /\ pres \in {"notPinned", "isIndirect", "isRecursive",
                            "alreadyRecursive"}) => Snapshot = pre

\* C6 witness: Unpin(k, FALSE) of a recursively pinned k with indirect pins
\* below it returned its error.
C6_Witness ==
  /\ Returned /\ pres = "isRecursive"
  /\ pcall.key \in recursePin
  /\ DOMAIN indirPin # {}

\* C7: Pin(k, TRUE) of a key that is already in the recursive set returns
\* without error and changes none of the three structures.
C7_RepinRecursiveIsNoop ==
  (Returned /\ pcall.op = "Pin" /\ pcall.recurse /\ pcall.key \in pre.r)
    => (pres = "ok" /\ Snapshot = pre)

\* C7 witness: R, which has descendants, was pinned recursively a second time.
C7_Witness ==
  /\ Returned /\ pcall.op = "Pin" /\ pcall.recurse
  /\ pcall.key = "R" /\ "R" \in pre.r
  /\ "Z" \in DOMAIN indirPin

\* What the read operation op returns in the pinner state sn
ReadOf(op, sn) ==
  CASE op = "DirectKeys" -> sn.d
    [] op = "RecursiveKeys" -> sn.r
    [] op = "IndirectKeys" -> sn.i

\* C10: a read (DirectKeys, RecursiveKeys, IndirectKeys; IsPinned cannot run
\* during a call) made while a Pin or Unpin call is in progress returns the
\* value of the state before the call or of the state after it.  obs is
\* cleared when a call begins, so at the return it is a read made during it.
C10_ReadsSeeNoHalfUpdate ==
  (Returned /\ obs.op # "none")
    => obs.val \in {ReadOf(obs.op, pre), ReadOf(obs.op, Snapshot)}


\* ---- helpers of the GC claims
RECURSIVE ReachVia(_, _)
\* S, and every key reached from S by following the links of the keys in ok
ReachVia(S, ok) ==
  LET T == S \cup UNION {Children(k) : k \in S \cap ok}
  IN IF T = S THEN S ELSE ReachVia(T, ok)

\* S and all its descendants
ReachFrom(S) == ReachVia(S, Keys)

\* The protected keys: recursive roots and descendants, direct keys,
\* best-effort roots and their descendants through the nodes that were in the
\* store when the run began (a missing node's links do not resolve), internal
\* pins and descendants
Protected ==
  ReachFrom(recursePin) \cup directPin \cup ReachVia(bestEffort, store0)
    \cup ReachFrom(internalPin)

\* The live set when every link resolves
LiveSet ==
  ReachFrom(recursePin) \cup directPin \cup ReachFrom(bestEffort)
    \cup ReachFrom(internalPin)

Deleted == store0 \ store

ResultsOfKind(kind) == {i \in 1..Len(emitted) : emitted[i].kind = kind}

RunClosed == gcpc = "done"

SweptExactly ==
  /\ store = store0 \cap LiveSet
  /\ {emitted[i].key : i \in ResultsOfKind("KeyRemoved")} = Deleted
  /\ Cardinality(ResultsOfKind("KeyRemoved")) = Cardinality(Deleted)

LinksAndDeletesSucceeded ==
  /\ hfail = "none"
  /\ ResultsOfKind("CannotDeleteBlockError") = {}

C3_FetchFailureAbortsBeforeSweep ==
  hfail = "fatal" =>
    /\ store = store0
    /\ RunClosed =>
         /\ recursePin \cup bestEffort \cup directPin \cup internalPin \subseteq gcs
         /\ emitted # <<>>
         /\ emitted[Len(emitted)] = ErrCannotFetchAllLinks

\* C3 witness: a run with two recursive roots and garbage in the store closed
\* after a fatal failure.
C3_Witness ==
  /\ RunClosed
  /\ hfail = "fatal"
  /\ Cardinality(recursePin) = 2
  /\ store0 \ LiveSet # {}

\* C8: under fair scheduling of the GC task (and a consumer that receives
\* until it cancels), every GC run eventually closes its result sequence with
\* the GC lock released.
C8_RunEventuallyCloses == (gcpc # "idle") ~> (closed /\ ~gclock)

\* C9 as stated: the lock is held from before the first traversal step, and in
\* a run that was not cancelled it is released only when the consumer has
\* received every Result of the run.
C9_Original ==
  /\ (Marking \/ gcpc \in {"allkeys", "sweep", "final"}) => gclock
  /\ (gcRan /\ gcpc # "idle" /\ ~gclock /\ ~cancelled) => recvd = Len(emitted)

\* C9, amended: the GC lock is held from before the first traversal step
\* until the GC task has sent its last Result, cancelled or not: every step
\* that adds to the colored set, deletes a block or sends a Result is taken
\* with the lock held and leaves it held.  (The release does not wait for the
\* consumer: Results may still be unread in the buffer.)
C9_LockHeldUntilLastSend ==
  [][(\/ (gcs \subseteq gcs' /\ gcs' # gcs)
      \/ store' # store
      \/ Len(emitted') > Len(emitted)) => (gclock /\ gclock')]_vars

\* C9 witness: the lock is released and the sequence closed, uncancelled, while
\* Results of the run are still unread.
C9_Witness ==
  /\ RunClosed /\ ~gclock /\ ~cancelled
  /\ recvd < Len(emitted)

\* C11: whenever Unpin(k, recursive) returns an error, whatever the reason (a
\* pin-state error, a failure to fetch k's node or one of its descendants),
\* the recursive set and the direct set are as before the call; so a
\* recursively pinned k whose Unpin failed is still in the recursive set.
C11_UnpinErrorLeavesSets ==
  (Returned /\ pcall.op = "Unpin" /\ pres # "ok")
    => (recursePin = pre.r /\ directPin = pre.d)

\* C12: whenever Pin(node, TRUE) returns an error because a descendant cannot
\* be fetched, the recursive set and the direct set are as before the call
\* (only reference counts may have been raised); so a key that was directly
\* pinned before the failing call is still directly pinned after it.
C12_FailedPinLeavesSets ==
  (Returned /\ pcall.op = "Pin" /\ pcall.recurse /\ pres = "fetch")
    => (recursePin = pre.r /\ directPin = pre.d)

\* ---- helpers of the sweep claims
ResultKeys(kind) == {emitted[i].key : i \in ResultsOfKind(kind)}

\* The keys the sweep loop has received from the key channel
Passed == {k \in store0 : \A i \in DOMAIN keysLeft : keysLeft[i] # k}

\* The keys whose deletion was attempted and failed: received by the loop,
\* outside the colored set and still in the store
FailedDeletes == {k \in Passed : k \notin gcs /\ k \in store}

\* A closed run whose colored-set build succeeded and whose sweep began
SweepRan ==
  /\ RunClosed
  /\ hfail # "fatal"
  /\ ResultsOfKind("AllKeysChanError") = {}

\* C13: in a run whose colored-set build succeeded, a failed deletion does not
\* stop the sweep.  When the run has closed, there is one delete-error Result
\* per key whose deletion failed and for no other key; if the run was not
\* cancelled, every stored key outside the colored set was deleted or has its
\* delete-error Result, and the aggregate error was sent once, as the last
\* Result, if a deletion failed, and not at all otherwise.
C13_DeleteFailureDoesNotStopSweep ==
  SweepRan =>
    /\ ResultKeys("CannotDeleteBlockError") = FailedDeletes
    /\ Cardinality(ResultsOfKind("CannotDeleteBlockError")) = Cardinality(FailedDeletes)
    /\ ~cancelled =>
         /\ \A k \in store0 \ gcs :
              k \notin store \/ k \in ResultKeys("CannotDeleteBlockError")
         /\ IF FailedDeletes # {}
              THEN /\ Cardinality(ResultsOfKind("ErrCannotDeleteSomeBlocks")) = 1
                   /\ emitted[Len(emitted)] = ErrCannotDeleteSomeBlocks
              ELSE ResultsOfKind("ErrCannotDeleteSomeBlocks") = {}

\* C13 witness: the deletion of R, the first key of the sweep, failed, and W,
\* which comes after it, was deleted all the same; the run closed uncancelled.
C13_Witness ==
  /\ SweepRan /\ ~cancelled
  /\ "R" \in FailedDeletes
  /\ "W" \in Deleted
  /\ emitted[Len(emitted)] = ErrCannotDeleteSomeBlocks

\* C14: if Flush returned without error, a pinner loaded afterwards from the
\* same datastore (before any later Flush) has the recursive set, the direct
\* set and the map of reference counts that the flushing pinner had at that
\* Flush, whatever Pin and Unpin calls were made since.
C14_FlushLoadRoundTrip ==
  (loaded.op = "LoadPinner" /\ flushed.ok)
    => (loaded.ok /\ loaded.sn = flushed.sn)

\* C14 witness: the pinner was flushed with a recursive pin, a direct pin and
\* a reference count of 2, was mutated after the Flush, and was then loaded.
C14_Witness ==
  /\ loaded.op = "LoadPinner" /\ flushed.ok
  /\ flushed.sn.r # {} /\ flushed.sn.d # {}
  /\ \E k \in DOMAIN flushed.sn.i : flushed.sn.i[k] = 2
  /\ PinnerIdle
  /\ Snapshot # flushed.sn

\* ---- helpers of the claim on concurrent runs
\* Run r is between its lock acquisition and its lock release
InLock(r) == r.gcpc \notin {"idle", "close", "done"}

\* C15: with two GC runs started concurrently on the same store, at most one
\* run at a time is between its lock acquisition and its lock release, the
\* lock is held exactly when one is, and every step that deletes a block is
\* taken by a run that is between acquisition and release while the other is
\* not: no run marks or deletes while the other is marking or sweeping.
C15_RunsMutuallyExcluded ==
  /\ [](/\ ~(InLock(ThisRun) /\ InLock(other))
        /\ gclock <=> (InLock(ThisRun) \/ InLock(other)))
  /\ [][store' # store =>
          (InLock(ThisRun) /\ ~InLock(other) /\ gclock /\ gclock')]_vars

\* C15 witness: one run has released the lock after deleting blocks, its
\* consumer not yet through with the Results, and the other run, started
\* meanwhile, is sweeping and has deleted a block too.
C15_Witness ==
  /\ InLock(ThisRun) /\ gcpc = "sweep" /\ store # store0
  /\ other.gcpc \in {"close", "done"}
  /\ \E i \in DOMAIN other.emitted : other.emitted[i].kind = "KeyRemoved"
  /\ other.recvd < Len(other.emitted)

\* C16: during one colored-set build the links of each key are resolved at
\* most once, however many parents or roots reach it, also when a root of one
\* traversal was already added to the set as a descendant of an earlier root.
C16_ResolvedAtMostOnce == \A e \in rlog : e.n = 1

\* The deleted keys that no removed-key Result names
Unreported == Deleted \ ResultKeys("KeyRemoved")

\* Every removed-key Result names a key the run deleted, once
RemovedResultsAreDeletions ==
  /\ ResultKeys("KeyRemoved") \subseteq Deleted
  /\ Cardinality(ResultsOfKind("KeyRemoved")) = Cardinality(ResultKeys("KeyRemoved"))

\* C17 as stated: in every closed run, completed or cancelled, the keys the
\* sweep deleted are exactly the keys named by the removed-key Results.
C17_Original ==
  RunClosed => (RemovedResultsAreDeletions /\ Unreported = {})

\* C17, amended: every removed-key Result names a key the run deleted, once;
\* in a closed run that was not cancelled every deleted key is reported by a
\* removed-key Result; in a cancelled run at most one deletion, the last one
\* before the sweep noticed the cancellation, goes unreported.
C17_DeletionsReported ==
  /\ RemovedResultsAreDeletions
  /\ Cardinality(Unreported) <= 1
  /\ (RunClosed /\ ~cancelled) => Unreported = {}

\* C17 witness: a cancelled run closed having reported one deletion and not
\* the next one.
C17_Witness ==
  /\ RunClosed /\ cancelled
  /\ ResultKeys("KeyRemoved") # {}
  /\ Unreported # {}

\* ---- helpers of the claim on the two failure policies
\* The resolutions that failed with a not-found in the best-effort traversal
Tolerated == {e \in rlog : e.fail = "tolerated"}

\* The resolutions that failed in any other way
Fatal == {e \in rlog : e.fail = "fatal"}

\* C18: when a run has closed, there is one link-fetch error Result per
\* resolution that failed otherwise than by a not-found in the best-effort
\* traversal, and none for a not-found there; the build failed (the abort
\* error was sent and nothing was deleted) if and only if such a resolution
\* failed; a key not found in the best-effort traversal is in the colored
\* set, and if nothing else failed the sweep went on: uncancelled, and the
\* store enumerated, every stored key outside the set was deleted or has its
\* delete-error Result.
C18_NotFoundToleratedOthersFatal ==
  RunClosed =>
    /\ ResultKeys("CannotFetchLinksError") = {e.key : e \in Fatal}
    /\ Cardinality(ResultsOfKind("CannotFetchLinksError")) = Cardinality(Fatal)
    /\ (Fatal # {}) <=> (ResultsOfKind("ErrCannotFetchAllLinks") # {})
    /\ Fatal # {} => store = store0
    /\ \A e \in Tolerated : e.key \in gcs
    /\ (Fatal = {} /\ ~cancelled /\ ResultsOfKind("AllKeysChanError") = {})
         => \A k \in store0 \ gcs : k \notin store \/ k \in FailedDeletes

\* C18 witness: an uncancelled run closed after a not-found in the best-effort
\* traversal and no other resolution failure, and it deleted blocks.
C18_Witness ==
  /\ RunClosed /\ ~cancelled
  /\ Tolerated # {} /\ Fatal = {}
  /\ emitted # <<>>
  /\ \A i \in DOMAIN emitted : emitted[i].kind = "KeyRemoved"

\* The keys for which IsPinned is true
PinnedKeys == recursePin \cup directPin \cup DOMAIN indirPin

\* C19: after any sequence of Pin and Unpin calls, failing ones included,
\* every key k for which IsPinned(k) is true is in the set that ColoredSet
\* computes from that pinner state, so that a GC run started in that state
\* does not delete k: once the build has returned its set to GC, the set
\* holds every pinned key, and no pinned key is ever deleted.
C19_PinnedKeysAreLive ==
  /\ gcpc \in {"allkeys", "sweep", "final"} => PinnedKeys \subseteq gcs
  /\ Deleted \cap PinnedKeys = {}

\* C20: for a key k in neither the recursive nor the direct set, Pin(k, TRUE)
\* followed by Unpin(k, TRUE), both returning without error and no other call
\* between them, leaves the recursive set, the direct set and the map of
\* reference counts (every count, and no entry for a count back at 0) exactly
\* as they were before the Pin, whatever else is pinned and however many
\* paths of k's DAG reach the same descendant.
C20_PinUnpinRestores ==
  (Returned /\ pres = "ok" /\ pcall.op = "Unpin" /\ pcall.recurse
     /\ pin0.key = pcall.key)
    => Snapshot = pin0.sn

\* C20 witness: with R pinned recursively (Z counted once), W, whose DAG
\* reaches Z along two paths and shares X with R, was pinned and unpinned.
C20_Witness ==
  /\ Returned /\ pres = "ok" /\ pcall.op = "Unpin" /\ pcall.recurse
  /\ pin0.key = "W" /\ pcall.key = "W"
  /\ pin0.sn.r = {"R"}
  /\ pin0.sn.i["Z"] = 1
  /\ pre.i["Z"] = 3
  /\ indirPin["Z"] = 1

====
